---- MODULE Spec2Model ----
(***************************************************************************)
(* Model of the tile-map viewer: the OpenGL variant (maingl.c) with its    *)
(* camera (drag pan, anchored zoom), per-frame viewport resolution, LOD    *)
(* stride, hover highlight, atlas index decomposition and the start-up /   *)
(* shut-down sequence of main().                                           *)
(*                                                                         *)
(* The program computes in IEEE-754 single precision.  A float is modelled *)
(* as a pair <<m, e>> of integers standing for m * 2^e, with m = 0, e = 0  *)
(* for zero and 2^23 <= |m| < 2^24 otherwise.  Every arithmetic operator   *)
(* below rounds to nearest, ties to even, as the hardware does; the values *)
(* the program handles stay far from the subnormal and overflow ranges.    *)
(***************************************************************************)
EXTENDS Integers, Sequences, FiniteSets, TLC

\* ---------------------------------------------------------------- float32

Abs(x) == IF x < 0 THEN -x ELSE x

Sgn(x) == IF x < 0 THEN -1 ELSE 1

\* Number of bits of the natural number M < 2^31, found by bisection.
RECURSIVE BitsBetween(_, _, _)
BitsBetween(M, lo, hi) ==
    IF lo = hi THEN lo
    ELSE LET mid == (lo + hi) \div 2
         IN  IF M < 2^mid THEN BitsBetween(M, lo, mid)
                          ELSE BitsBetween(M, mid + 1, hi)

BitLen(M) == BitsBetween(M, 0, 31)

FZero == <<0, 0>>

\* The float nearest to sign * (M + fraction) * 2^E, where M < 2^31 and
\* sticky says that a non-zero fraction below M's last bit was cut off.
\* Round to nearest, ties to even.
Round(sign, M, E, sticky) ==
    IF M = 0 THEN FZero
    ELSE LET L == BitLen(M)
         IN  IF L <= 24
             THEN <<sign * M * 2^(24 - L), E - (24 - L)>>
             ELSE LET k    == L - 24
                      q    == M \div 2^k
                      r    == M % 2^k
                      half == 2^(k - 1)
                      up   == \/ r > half
                              \/ r = half /\ (sticky \/ q % 2 = 1)
                      q2   == IF up THEN q + 1 ELSE q
                  IN  IF q2 = 2^24 THEN <<sign * 2^23, E + k + 1>>
                                   ELSE <<sign * q2, E + k>>

\* (float)n for an int n.
FromInt(n) == Round(Sgn(n), Abs(n), 0, FALSE)

FNeg(a) == <<-a[1], a[2]>>

FIsZero(a) == a[1] = 0

\* a < b
FLt(a, b) ==
    IF a[1] = 0 THEN b[1] > 0
    ELSE IF b[1] = 0 THEN a[1] < 0
    ELSE IF (a[1] < 0) # (b[1] < 0) THEN a[1] < 0
    ELSE IF a[1] > 0
         THEN a[2] < b[2] \/ (a[2] = b[2] /\ a[1] < b[1])
         ELSE a[2] > b[2] \/ (a[2] = b[2] /\ a[1] < b[1])

FLe(a, b) == a = b \/ FLt(a, b)

\* a * b
FMul(a, b) ==
    IF a[1] = 0 \/ b[1] = 0 THEN FZero
    ELSE LET x   == Abs(a[1])
             y   == Abs(b[1])
             xh  == x \div 4096
             xl  == x % 4096
             yh  == y \div 4096
             yl  == y % 4096
             mid == xh * yl + xl * yh
             low == (mid % 4096) * 4096 + xl * yl
             H   == xh * yh + mid \div 4096 + low \div 2^24
             L   == low % 2^24
             \* the product is H * 2^24 + L with 2^22 <= H < 2^24
         IN  Round(Sgn(a[1]) * Sgn(b[1]), H * 64 + L \div 2^18,
                   a[2] + b[2] + 18, L % 2^18 # 0)

\* a / b, b # 0
FDiv(a, b) ==
    IF a[1] = 0 THEN FZero
    ELSE LET x  == Abs(a[1])
             y  == Abs(b[1])
             q0 == x \div y
             r0 == x % y
             q1 == (r0 * 128) \div y
             r1 == (r0 * 128) % y
             q2 == (r1 * 128) \div y
             r2 == (r1 * 128) % y
             q3 == (r2 * 128) \div y
             r3 == (r2 * 128) % y
             q4 == (r3 * 128) \div y
             r4 == (r3 * 128) % y
             Q  == (((q0 * 128 + q1) * 128 + q2) * 128 + q3) * 128 + q4
         IN  Round(Sgn(a[1]) * Sgn(b[1]), Q, a[2] - b[2] - 28, r4 # 0)

\* a + b
FAdd(a, b) ==
    IF a[1] = 0 THEN b
    ELSE IF b[1] = 0 THEN a
    ELSE LET big   == IF a[2] >= b[2] THEN a ELSE b
             small == IF a[2] >= b[2] THEN b ELSE a
             d     == big[2] - small[2]
             A     == Abs(big[1]) * 64
             S     == Abs(small[1]) * 64
             B     == IF d > 30 THEN 0 ELSE S \div 2^d
             cut   == IF d > 30 THEN TRUE ELSE S % 2^d # 0
             same  == (big[1] < 0) = (small[1] < 0)
             sum   == IF same THEN A + B
                      ELSE IF cut THEN A - B - 1 ELSE A - B
         IN  IF sum < 0 THEN Round(-Sgn(big[1]), -sum, big[2] - 6, cut)
                        ELSE Round(Sgn(big[1]), sum, big[2] - 6, cut)

\* a - b
FSub(a, b) == FAdd(a, FNeg(b))

\* The integer floor(a), for |a| < 2^31.
FloorInt(a) ==
    IF a[2] >= 0 THEN a[1] * 2^a[2]
    ELSE IF a[2] < -30 THEN (IF a[1] < 0 THEN -1 ELSE 0)
    ELSE a[1] \div 2^(-a[2])

\* The integer ceil(a), for |a| < 2^31.
CeilInt(a) == -FloorInt(FNeg(a))

\* floorf(a) and ceilf(a): floats again.
floorf(a) == FromInt(FloorInt(a))

ceilf(a) == FromInt(CeilInt(a))

\* (int)a: the C conversion truncates toward zero.
ToInt(a) == IF a[1] < 0 THEN CeilInt(a) ELSE FloorInt(a)

\* C integer division a / b truncates toward zero.
CDiv(a, b) == Sgn(a) * Sgn(b) * (Abs(a) \div Abs(b))

\* ------------------------------------------------------ configuration

SCREEN_WIDTH == 800

SCREEN_HEIGHT == 600

MAP_WIDTH == 1000

MAP_HEIGHT == 1000

TILE_WIDTH == 32

TILE_HEIGHT == 32

\* The float literals 8.0f, 16.0f, 0.001f and 1.1f.
LOD_PIXEL_THRESHOLD == FromInt(8)

MAX_ZOOM == FromInt(16)

MIN_ZOOM == FDiv(FromInt(1), FromInt(1000))

ZOOM_STEP == FDiv(FromInt(11), FromInt(10))

\* ------------------------------------------------------- input sets

\* Pointer positions the mouse events carry: the window's corners and a
\* point of its middle row.
Pointers == {<<0, 0>>, <<424, 300>>, <<799, 599>>}

\* e.wheel.y of a wheel event: one notch up or down.
WheelYs == {1, -1}

\* Window sizes: the initial one and one the user resizes to.
WindowSizes == {<<SCREEN_WIDTH, SCREEN_HEIGHT>>, <<1024, 768>>}

\* Pixel size of the atlas image tileset.png in a session.
ImageSizes == {<<128, 64>>}

\* Atlas images the index decomposition is checked on: 1 to 16 columns,
\* 1 to 3 rows.
AtlasImageSizes ==
    {<<w, h>> : w \in {32, 64, 96, 128, 160, 256, 512}, h \in {32, 64, 96}}

\* Events handled after the opening scroll gesture.
MaxEvents == 3

\* ------------------------------------------------------------- state

VARIABLES
    pc,             \* where main() is: "init", "load", "alloc", "poll",
                    \* "present", "exit"
    exit_code,      \* main's return value once pc = "exit"
    acquired,       \* resource -> number of times it was acquired
    released,       \* resource -> number of times it was released
    tileset,        \* the Tileset struct's cols, rows, use_shift, shift_bits
    tile_index,     \* draw_tile's argument and its atlas cell sx, sy
    sx,
    sy,
    zoom,           \* camera
    offset_x,
    offset_y,
    dragging,
    last_mouse_x,
    last_mouse_y,
    mouse_x,        \* what SDL_GetMouseState reports
    mouse_y,
    screen_w,       \* what SDL_GetWindowSize reports
    screen_h,
    running,
    e,              \* the SDL_Event last polled
    nevents,        \* events handled after the opening scroll gesture
    lod,            \* the frame's locals, 0 outside a frame
    min_x,
    min_y,
    max_x,
    max_y,
    start_x,
    start_y,
    tile_x,
    tile_y,
    outline         \* the tile draw_tile_outline was called for, or <<>>

lifecycle == <<pc, exit_code, acquired, released>>

atlas == <<tileset, tile_index, sx, sy>>

camera == <<zoom, offset_x, offset_y>>

pointer == <<dragging, last_mouse_x, last_mouse_y, mouse_x, mouse_y>>

window == <<screen_w, screen_h>>

frame == <<lod, min_x, min_y, max_x, max_y, start_x, start_y, tile_x, tile_y,
           outline>>

vars == <<lifecycle, atlas, camera, pointer, window, running, e, nevents,
          frame>>

Resources == {"sdl", "img", "window", "gl_context", "surface", "texture",
              "tiles"}

Acquire(f, rs) == [r \in Resources |-> IF r \in rs THEN f[r] + 1 ELSE f[r]]

NoEvent == [type |-> "NONE", x |-> 0, y |-> 0]

NoTileset == [cols |-> 0, rows |-> 0, use_shift |-> 0, shift_bits |-> 0]

Init ==
    /\ pc = "init"
    /\ exit_code = 0
    /\ acquired = [r \in Resources |-> 0]
    /\ released = [r \in Resources |-> 0]
    /\ tileset = NoTileset
    /\ tile_index = 0
    /\ sx = 0
    /\ sy = 0
    /\ zoom = FromInt(1)
    /\ offset_x = FDiv(FromInt(MAP_WIDTH * TILE_WIDTH - SCREEN_WIDTH),
                       FromInt(-2))
    /\ offset_y = FDiv(FromInt(MAP_HEIGHT * TILE_HEIGHT - SCREEN_HEIGHT),
                       FromInt(-2))
    /\ dragging = 0
    /\ last_mouse_x = 0
    /\ last_mouse_y = 0
    /\ mouse_x = 0
    /\ mouse_y = 0
    /\ screen_w = SCREEN_WIDTH
    /\ screen_h = SCREEN_HEIGHT
    /\ running = 1
    /\ e = NoEvent
    /\ nevents = 0
    /\ lod = 0
    /\ min_x = 0
    /\ min_y = 0
    /\ max_x = 0
    /\ max_y = 0
    /\ start_x = 0
    /\ start_y = 0
    /\ tile_x = 0
    /\ tile_y = 0
    /\ outline = <<>>

\* The frame's locals go out of scope when the loop body ends.
FrameGone ==
    /\ lod' = 0
    /\ min_x' = 0
    /\ min_y' = 0
    /\ max_x' = 0
    /\ max_y' = 0
    /\ start_x' = 0
    /\ start_y' = 0
    /\ tile_x' = 0
    /\ tile_y' = 0
    /\ outline' = <<>>

\* ----------------------------------------------------------- start-up

\* SDL_Init, IMG_Init, SDL_CreateWindow, SDL_GL_CreateContext: main does
\* not look at their results.
Startup ==
    /\ pc = "init"
    /\ pc' = "load"
    /\ acquired' = Acquire(acquired, {"sdl", "img", "window", "gl_context"})
    /\ UNCHANGED <<exit_code, released, atlas, camera, pointer, window,
                   running, e, nevents, frame>>

\* a & b for naturals.
RECURSIVE BitAnd(_, _)
BitAnd(a, b) ==
    IF a = 0 \/ b = 0 THEN 0
    ELSE (a % 2) * (b % 2) + 2 * BitAnd(a \div 2, b \div 2)

\* a >> n for a natural a.
ShiftRight(a, n) == a \div 2^n

is_power_of_two(x) == IF x > 0 /\ BitAnd(x, x - 1) = 0 THEN 1 ELSE 0

\* (int)log2f((float)cols) for a power of two cols: the exponent.
Log2fInt(cols) == FromInt(cols)[2] + 23

\* load_tileset, IMG_Load succeeding with a w x h image.
LoadedTileset(w, h) ==
    LET cols == CDiv(w, TILE_WIDTH)
        rows == CDiv(h, TILE_HEIGHT)
        pow2 == is_power_of_two(cols)
    IN  [cols |-> cols, rows |-> rows, use_shift |-> pow2,
         shift_bits |-> IF pow2 = 1 THEN Log2fInt(cols) ELSE 0]

LoadTilesetOf(sizes) ==
    /\ pc = "load"
    /\ \E size \in sizes :
          tileset' = LoadedTileset(size[1], size[2])
    /\ acquired' = Acquire(acquired, {"surface", "texture"})
    /\ released' = Acquire(released, {"surface"})
    /\ pc' = "alloc"
    /\ UNCHANGED <<exit_code, tile_index, sx, sy, camera, pointer, window,
                   running, e, nevents, frame>>

LoadTileset == LoadTilesetOf(ImageSizes)

\* IMG_Load fails: load_tileset returns 0 and main returns 1.
LoadTilesetFails ==
    /\ pc = "load"
    /\ pc' = "exit"
    /\ exit_code' = 1
    /\ UNCHANGED <<acquired, released, atlas, camera, pointer, window,
                   running, e, nevents, frame>>

\* The loop with <= for <.
RECURSIVE ShiftLoopInclusive(_, _)
ShiftLoopInclusive(shift, cols) ==
    IF 2^shift <= cols THEN ShiftLoopInclusive(shift + 1, cols) ELSE shift

\* while ((1 << shift) < cols) shift++
RECURSIVE ShiftLoop(_, _)
ShiftLoop(shift, cols) ==
    IF 2^shift < cols THEN ShiftLoop(shift + 1, cols) ELSE shift

\* main's own setting of use_shift and shift_bits; 0 & -1 is 0.
ShiftSetup(ts) ==
    LET use == IF ts.cols = 0 \/ BitAnd(ts.cols, ts.cols - 1) = 0
               THEN 1 ELSE 0
    IN  [ts EXCEPT !.use_shift = use,
                   !.shift_bits = IF use = 1 THEN ShiftLoop(0, ts.cols)
                                             ELSE ts.shift_bits]

\* malloc succeeds; the shift set-up, the random fill and the camera's
\* initial values follow, and the loop is entered.
AllocMap ==
    /\ pc = "alloc"
    /\ acquired' = Acquire(acquired, {"tiles"})
    /\ tileset' = ShiftSetup(tileset)
    /\ pc' = "poll"
    /\ UNCHANGED <<exit_code, released, tile_index, sx, sy, camera, pointer,
                   window, running, e, nevents, frame>>

\* malloc fails: main returns 1.
AllocMapFails ==
    /\ pc = "alloc"
    /\ pc' = "exit"
    /\ exit_code' = 1
    /\ UNCHANGED <<acquired, released, atlas, camera, pointer, window,
                   running, e, nevents, frame>>

\* ------------------------------------------------------------- events

InLoop == pc \in {"poll", "present"} /\ (pc = "present" => running = 1)

\* An event other than a wheel event of the opening gesture is counted.
Counted ==
    /\ nevents < MaxEvents
    /\ nevents' = nevents + 1

Quit ==
    /\ InLoop
    /\ Counted
    /\ running' = 0
    /\ e' = [type |-> "QUIT", x |-> 0, y |-> 0]
    /\ pc' = "poll"
    /\ FrameGone
    /\ UNCHANGED <<exit_code, acquired, released, atlas, camera, pointer,
                   window>>

\* SDL_MOUSEBUTTONDOWN of the left button, at the pointer's position.
MouseButtonDown ==
    /\ InLoop
    /\ Counted
    /\ e' = [type |-> "MOUSEBUTTONDOWN", x |-> mouse_x, y |-> mouse_y]
    /\ dragging' = 1
    /\ last_mouse_x' = e'.x
    /\ last_mouse_y' = e'.y
    /\ pc' = "poll"
    /\ FrameGone
    /\ UNCHANGED <<exit_code, acquired, released, atlas, camera, mouse_x,
                   mouse_y, window, running>>

MouseButtonUp ==
    /\ InLoop
    /\ Counted
    /\ e' = [type |-> "MOUSEBUTTONUP", x |-> mouse_x, y |-> mouse_y]
    /\ dragging' = 0
    /\ pc' = "poll"
    /\ FrameGone
    /\ UNCHANGED <<exit_code, acquired, released, atlas, camera,
                   last_mouse_x, last_mouse_y, mouse_x, mouse_y, window,
                   running>>

\* The pan with the division by zoom left out.
DragOffsetUnscaled(offset, motion, last, z) ==
    FAdd(offset, FromInt(motion - last))

\* offset += (motion - last_mouse) / zoom
DragOffset(offset, motion, last, z) ==
    FAdd(offset, FDiv(FromInt(motion - last), z))

\* SDL_MOUSEMOTION to p; the handler acts only while dragging.
MouseMotion(p) ==
    /\ InLoop
    /\ Counted
    /\ p # <<mouse_x, mouse_y>>
    /\ e' = [type |-> "MOUSEMOTION", x |-> p[1], y |-> p[2]]
    /\ mouse_x' = p[1]
    /\ mouse_y' = p[2]
    /\ IF dragging = 1
       THEN /\ offset_x' = DragOffset(offset_x, e'.x, last_mouse_x, zoom)
            /\ offset_y' = DragOffset(offset_y, e'.y, last_mouse_y, zoom)
            /\ last_mouse_x' = e'.x
            /\ last_mouse_y' = e'.y
       ELSE UNCHANGED <<offset_x, offset_y, last_mouse_x, last_mouse_y>>
    /\ pc' = "poll"
    /\ FrameGone
    /\ UNCHANGED <<exit_code, acquired, released, atlas, zoom, dragging,
                   window, running>>

\* world = m / zoom - offset
WorldAt(m, z, offset) == FSub(FDiv(FromInt(m), z), offset)

\* The step with the upper clamp left out.
ZoomStepNoMax(z, y) ==
    LET z1 == FMul(z, IF y > 0 THEN ZOOM_STEP
                               ELSE FDiv(FromInt(1), ZOOM_STEP))
    IN  IF FLt(z1, MIN_ZOOM) THEN MIN_ZOOM ELSE z1

\* zoom *= (wheel.y > 0) ? ZOOM_STEP : (1.0f / ZOOM_STEP), then the clamps.
ZoomStep(z, y) ==
    LET z1 == FMul(z, IF y > 0 THEN ZOOM_STEP
                               ELSE FDiv(FromInt(1), ZOOM_STEP))
        z2 == IF FLt(z1, MIN_ZOOM) THEN MIN_ZOOM ELSE z1
    IN  IF FLt(MAX_ZOOM, z2) THEN MAX_ZOOM ELSE z2

\* The recomputation with its operands exchanged.
AnchorOffsetSwapped(m, z, world) == FSub(world, FDiv(FromInt(m), z))

\* offset = m / zoom - world
AnchorOffset(m, z, world) == FSub(FDiv(FromInt(m), z), world)

\* SDL_MOUSEWHEEL.  The wheel events of the opening gesture (all in one
\* direction, before any other event) are not counted: the zoom saturates.
MouseWheel(y) ==
    /\ InLoop
    /\ IF nevents = 0 /\ running = 1
          /\ (e.type = "NONE" \/ (e.type = "MOUSEWHEEL" /\ e.y = y))
       THEN nevents' = nevents
       ELSE Counted
    /\ e' = [type |-> "MOUSEWHEEL", x |-> 0, y |-> y]
    /\ LET world_x == WorldAt(mouse_x, zoom, offset_x)
           world_y == WorldAt(mouse_y, zoom, offset_y)
       IN  /\ zoom' = ZoomStep(zoom, y)
           /\ offset_x' = AnchorOffset(mouse_x, zoom', world_x)
           /\ offset_y' = AnchorOffset(mouse_y, zoom', world_y)
    /\ pc' = "poll"
    /\ FrameGone
    /\ UNCHANGED <<exit_code, acquired, released, atlas, pointer, window,
                   running>>

\* SDL_WINDOWEVENT_RESIZED: the projection is rebuilt; the frame reads the
\* new size from SDL_GetWindowSize.
WindowResized(size) ==
    /\ InLoop
    /\ Counted
    /\ size # <<screen_w, screen_h>>
    /\ e' = [type |-> "WINDOWEVENT", x |-> size[1], y |-> size[2]]
    /\ screen_w' = e'.x
    /\ screen_h' = e'.y
    /\ pc' = "poll"
    /\ FrameGone
    /\ UNCHANGED <<exit_code, acquired, released, atlas, camera, pointer,
                   running>>

\* -------------------------------------------------------------- frame

\* The stride with the quotient truncated instead of rounded up.
LodTruncated(z) ==
    LET tsz == FMul(FromInt(TILE_WIDTH), z)
    IN  IF FLt(tsz, LOD_PIXEL_THRESHOLD)
        THEN ToInt(FDiv(LOD_PIXEL_THRESHOLD, tsz))
        ELSE 1

\* lod = (tsz < LOD_PIXEL_THRESHOLD) ? (int)ceilf(LOD_PIXEL_THRESHOLD / tsz) : 1
LodOf(z) ==
    LET tsz == FMul(FromInt(TILE_WIDTH), z)
    IN  IF FLt(tsz, LOD_PIXEL_THRESHOLD)
        THEN ToInt(ceilf(FDiv(LOD_PIXEL_THRESHOLD, tsz)))
        ELSE 1

\* (int)floorf(-offset / tile)
RawMin(offset, tile) == ToInt(floorf(FDiv(FNeg(offset), FromInt(tile))))

\* (int)ceilf((screen / zoom - offset) / tile)
RawMax(screen, z, offset, tile) ==
    ToInt(ceilf(FDiv(FSub(FDiv(FromInt(screen), z), offset), FromInt(tile))))

\* if (min < 0) min = 0
ClampMin(m) == IF m < 0 THEN 0 ELSE m

\* The upper clamp left out.
ClampMaxNone(m, size) == m

\* if (max > size) max = size
ClampMax(m, size) == IF m > size THEN size ELSE m

\* The alignment rounding up instead of down.
AlignStartUp(m, stride) == CDiv(m + stride - 1, stride) * stride

\* (min / lod) * lod
AlignStart(m, stride) == CDiv(m, stride) * stride

\* (int)((m / zoom - offset) / tile)
HoverTile(m, z, offset, tile) ==
    ToInt(FDiv(FSub(FDiv(FromInt(m), z), offset), FromInt(tile)))

\* One loop body after the event queue is drained: the frame is drawn.
Frame ==
    /\ pc = "poll"
    /\ pc' = "present"
    /\ lod' = LodOf(zoom)
    /\ min_x' = ClampMin(RawMin(offset_x, TILE_WIDTH))
    /\ min_y' = ClampMin(RawMin(offset_y, TILE_HEIGHT))
    /\ max_x' = ClampMax(RawMax(screen_w, zoom, offset_x, TILE_WIDTH),
                         MAP_WIDTH)
    /\ max_y' = ClampMax(RawMax(screen_h, zoom, offset_y, TILE_HEIGHT),
                         MAP_HEIGHT)
    /\ start_x' = AlignStart(min_x', lod')
    /\ start_y' = AlignStart(min_y', lod')
    /\ tile_x' = HoverTile(mouse_x, zoom, offset_x, TILE_WIDTH)
    /\ tile_y' = HoverTile(mouse_y, zoom, offset_y, TILE_HEIGHT)
    /\ outline' = IF /\ tile_x' >= 0 /\ tile_x' < MAP_WIDTH
                     /\ tile_y' >= 0 /\ tile_y' < MAP_HEIGHT
                  THEN <<tile_x', tile_y'>>
                  ELSE <<>>
    /\ UNCHANGED <<exit_code, acquired, released, atlas, camera, pointer,
                   window, running, e, nevents>>

\* The loop ending one stride early.
RECURSIVE LoopValuesShort(_, _, _)
LoopValuesShort(v, max, stride) ==
    IF v + stride < max
    THEN {v} \cup LoopValuesShort(v + stride, max, stride)
    ELSE {}

\* for (v = start; v < max; v += lod): the values v takes.
RECURSIVE LoopValues(_, _, _)
LoopValues(v, max, stride) ==
    IF v < max THEN {v} \cup LoopValues(v + stride, max, stride) ELSE {}

\* The columns and rows the draw loop of the frame visits.
DrawnXs == LoopValues(start_x, max_x, lod)

DrawnYs == LoopValues(start_y, max_y, lod)

\* map.tiles[y * MAP_WIDTH + x]: the flat index of the read at (x, y).
FlatIndex(x, y) == y * MAP_WIDTH + x

\* --------------------------------------------------------- draw_tile

\* draw_tile's atlas cell of tile_index: the shift path or the generic one.
AtlasCell(ts, index) ==
    IF ts.use_shift = 1
    THEN <<BitAnd(index, ts.cols - 1), ShiftRight(index, ts.shift_bits)>>
    ELSE <<index % ts.cols, CDiv(index, ts.cols)>>

\* The draw loop calls draw_tile with an index the random fill stored:
\* rand() % (cols * rows).
DrawTile ==
    /\ pc = "poll"
    /\ \E index \in 0 .. (tileset.cols * tileset.rows - 1) :
          /\ tile_index' = index
          /\ sx' = AtlasCell(tileset, index)[1]
          /\ sy' = AtlasCell(tileset, index)[2]
    /\ UNCHANGED <<lifecycle, tileset, camera, pointer, window, running, e,
                   nevents, frame>>

\* ---------------------------------------------------------- shut-down

\* The loop ends after the frame in which running became 0: free,
\* glDeleteTextures, SDL_GL_DeleteContext, SDL_DestroyWindow, IMG_Quit,
\* SDL_Quit, return 0.
Shutdown ==
    /\ pc = "present"
    /\ running = 0
    /\ released' = Acquire(released, {"tiles", "texture", "gl_context",
                                      "window", "img", "sdl"})
    /\ pc' = "exit"
    /\ exit_code' = 0
    /\ FrameGone
    /\ UNCHANGED <<acquired, atlas, camera, pointer, window, running, e,
                   nevents>>

Next ==
    \/ Startup
    \/ LoadTileset
    \/ LoadTilesetFails
    \/ AllocMap
    \/ AllocMapFails
    \/ Quit
    \/ MouseButtonDown
    \/ MouseButtonUp
    \/ \E p \in Pointers : MouseMotion(p)
    \/ \E y \in WheelYs : MouseWheel(y)
    \/ \E size \in WindowSizes : WindowResized(size)
    \/ Frame
    \/ Shutdown

Spec == Init /\ [][Next]_vars

\* The start-up with any of the atlas images, then draw_tile calls.
NextAtlas ==
    \/ Startup
    \/ LoadTilesetOf(AtlasImageSizes)
    \/ AllocMap
    \/ DrawTile

SpecAtlas == Init /\ [][NextAtlas]_vars

\* ---------------------------------------------------------- properties

FAbs(a) == <<Abs(a[1]), a[2]>>

\* The one of a and b that is larger in magnitude.
FMaxAbs(a, b) == IF FLt(FAbs(a), FAbs(b)) THEN b ELSE a

\* The unit in the last place of a: 2^e for a = m * 2^e, 0 for zero.
Ulp(a) == IF a[1] = 0 THEN FZero ELSE <<2^23, a[2] - 23>>

\* a and b differ by at most n units in the last place of ref.
Within(a, b, n, ref) ==
    FLe(FAbs(FSub(a, b)), FMul(FromInt(n), Ulp(ref)))

\* A step in which the handler of an event of the given type ran.
Handled(type) ==
    /\ pc \in {"poll", "present"}
    /\ pc' = "poll"
    /\ e'.type = type

\* C1: at the end of every event handler MIN_ZOOM <= zoom <= MAX_ZOOM,
\* whatever the sequence of wheel events.
C1_ZoomInRange == FLe(MIN_ZOOM, zoom) /\ FLe(zoom, MAX_ZOOM)

\* A wheel-down step ended on the lower bound, which no power of the step
\* factor hits: the clamp acted.
C1_ClampedAtMin ==
    /\ e.type = "MOUSEWHEEL"
    /\ e.y < 0
    /\ zoom = MIN_ZOOM
    /\ FLt(FMul(zoom, FDiv(FromInt(1), ZOOM_STEP)), MIN_ZOOM)

\* The wheel step starts with the zoom on the bound of its direction.
Saturated ==
    \/ e'.y > 0 /\ zoom = MAX_ZOOM
    \/ e'.y < 0 /\ zoom = MIN_ZOOM

\* C2 as stated: after a wheel event at pointer p the world point under p
\* is exactly the one that was under p before the event, also when the zoom
\* saturates, and a further step in the saturated direction leaves zoom and
\* offset unchanged.
C2_AnchorExact ==
    [][Handled("MOUSEWHEEL") =>
         /\ WorldAt(mouse_x', zoom', offset_x')
              = WorldAt(mouse_x, zoom, offset_x)
         /\ WorldAt(mouse_y', zoom', offset_y')
              = WorldAt(mouse_y, zoom, offset_y)
         /\ Saturated => /\ zoom' = zoom
                         /\ offset_x' = offset_x
                         /\ offset_y' = offset_y]_vars

\* The world point m shows after the step is the one it showed before, and
\* a saturated step keeps the offset, each within one unit in the last place
\* of the larger of the world coordinate and the offset.
AnchoredAxis(m, offset, offsetAfter) ==
    LET w == WorldAt(m, zoom, offset)
    IN  /\ Within(WorldAt(m, zoom', offsetAfter), w, 1,
                  FMaxAbs(w, offsetAfter))
        /\ Saturated => Within(offsetAfter, offset, 1, FMaxAbs(w, offset))

\* C2, amended: after a wheel event at pointer p the world point under p is
\* the one that was under p before, within one unit in the last place of the
\* larger of that coordinate and the new offset; a step in the saturated
\* direction leaves zoom unchanged and the offset within the same tolerance.
C2_AnchorWithinRounding ==
    [][Handled("MOUSEWHEEL") =>
         /\ AnchoredAxis(mouse_x, offset_x, offset_x')
         /\ AnchoredAxis(mouse_y, offset_y, offset_y')
         /\ Saturated => zoom' = zoom]_vars

\* A wheel-down event was handled at a pointer away from the origin while
\* the zoom sat on its lower bound, after the camera had been zoomed there.
C2_WheelAtSaturation ==
    /\ e.type = "MOUSEWHEEL"
    /\ e.y < 0
    /\ nevents >= 2
    /\ mouse_x > 0
    /\ zoom = MIN_ZOOM
    /\ pc = "poll"

\* C3 as stated: for every offset, zoom and window size the frame's visible
\* range satisfies 0 <= min <= max <= grid size on both axes.
C3_RangeOrdered ==
    pc = "present" =>
        /\ 0 <= min_x /\ min_x <= max_x /\ max_x <= MAP_WIDTH
        /\ 0 <= min_y /\ min_y <= max_y /\ max_y <= MAP_HEIGHT

\* C4: for an atlas whose column count is a power of two, draw_tile's shift
\* path (index & (cols - 1), index >> shift_bits, with the shift main
\* computes) yields the column and row the generic path (index % cols,
\* index / cols) yields, for every index.
C4_ShiftIsDivMod ==
    (pc = "poll" /\ is_power_of_two(tileset.cols) = 1) =>
        /\ tileset.use_shift = 1
        /\ <<sx, sy>> = AtlasCell([tileset EXCEPT !.use_shift = 0], tile_index)

\* draw_tile took the shift path for index 13 of an atlas 8 columns wide.
C4_ShiftPathTaken ==
    /\ pc = "poll"
    /\ tileset.cols = 8
    /\ tileset.use_shift = 1
    /\ tileset.shift_bits = 3
    /\ tile_index = 13
    /\ <<sx, sy>> = <<5, 1>>

\* start is a multiple of stride with min - stride < start <= min.
Aligned(start, m, stride) ==
    /\ start % stride = 0
    /\ start <= m
    /\ m - stride < start

\* C5: the frame's stride is at least 1, and on both axes the aligned start
\* is a multiple of the stride with start <= min and start > min - stride.
C5_StartAligned ==
    pc = "present" =>
        /\ lod >= 1
        /\ Aligned(start_x, min_x, lod)
        /\ Aligned(start_y, min_y, lod)

\* A frame whose stride exceeds 1 and whose alignment moved both starts
\* below the visible minimum.
C5_StartMoved ==
    /\ pc = "present"
    /\ lod > 1
    /\ start_x < min_x
    /\ start_y < min_y

\* C6: the stride is 1 when a tile is at least LOD_PIXEL_THRESHOLD pixels on
\* screen; otherwise it is the ceiling of LOD_PIXEL_THRESHOLD / (TILE_WIDTH *
\* zoom), the least integer not below that quotient; it is never 0 or
\* negative, and zoom 0.1 gives stride 3.
C6_StrideIsCeiling ==
    /\ LodOf(FDiv(FromInt(1), FromInt(10))) = 3
    /\ pc = "present" =>
         LET tsz      == FMul(FromInt(TILE_WIDTH), zoom)
             quotient == FDiv(LOD_PIXEL_THRESHOLD, tsz)
         IN  /\ lod >= 1
             /\ FLe(LOD_PIXEL_THRESHOLD, tsz) => lod = 1
             /\ FLt(tsz, LOD_PIXEL_THRESHOLD) =>
                    /\ FLe(quotient, FromInt(lod))
                    /\ FLt(FromInt(lod - 1), quotient)

\* A frame at the lower zoom bound: a tile is 0.032 pixels on screen and the
\* stride is 250.
C6_StrideAtMinZoom ==
    /\ pc = "present"
    /\ zoom = MIN_ZOOM
    /\ lod = 250

\* floor((m / zoom - offset) / tile), the tile index of the inverse
\* transform.
FloorTile(m, z, offset, tile) ==
    FloorInt(FDiv(WorldAt(m, z, offset), FromInt(tile)))

\* C7 as stated: with the pointer at p a highlight is drawn iff the tile
\* (floor((p.x / zoom - offset_x) / tile_width), floor((p.y / zoom -
\* offset_y) / tile_height)) lies inside the grid, and it is drawn for that
\* tile.
C7_HoverIsFloorTile ==
    pc = "present" =>
        LET fx     == FloorTile(mouse_x, zoom, offset_x, TILE_WIDTH)
            fy     == FloorTile(mouse_y, zoom, offset_y, TILE_HEIGHT)
            inGrid == /\ 0 <= fx /\ fx < MAP_WIDTH
                      /\ 0 <= fy /\ fy < MAP_HEIGHT
        IN  /\ outline # <<>> <=> inGrid
            /\ inGrid => outline = <<fx, fy>>

\* The larger of the naturals a and b.
Max(a, b) == IF a < b THEN b ELSE a

DraggedAxis(cur, last, offset, offsetAfter) ==
    LET w == WorldAt(last, zoom, offset)
    IN  Within(WorldAt(cur, zoom', offsetAfter), w, 5,
               FMaxAbs(FMaxAbs(w, offsetAfter),
                       FDiv(FromInt(Max(cur, last)), zoom)))

C9_AllReleased ==
    pc = "exit" => \A r \in Resources : released[r] = acquired[r]

\* Every index of min .. max - 1 lies in the footprint [r, r + stride) of
\* exactly one visited representative, and each representative is a
\* multiple of the stride.  Among multiples of the stride only v - v % stride
\* has v in its footprint, so "exactly one" is: that one was visited.
CoveredOnce(m, max, reps, stride) ==
    /\ \A r \in reps : r % stride = 0
    /\ \A v \in m .. (max - 1) : (v - (v % stride)) \in reps

\* C10: the draw loop visits DrawnXs x DrawnYs; every tile (x, y) of the
\* visible range lies in the stride x stride footprint of exactly one
\* visited representative (rx, ry), with rx and ry multiples of the stride.
C10_LodCoverage ==
    pc = "present" =>
        /\ CoveredOnce(min_x, max_x, DrawnXs, lod)
        /\ CoveredOnce(min_y, max_y, DrawnYs, lod)

\* A frame with stride above 1 whose range starts inside a footprint and
\* needs several representatives on both axes.
C10_SeveralFootprints ==
    /\ pc = "present"
    /\ lod > 1
    /\ start_x < min_x
    /\ start_y < min_y
    /\ Cardinality(DrawnXs) > 2
    /\ Cardinality(DrawnYs) > 2

\* C11: in every frame the stride is at least 1, so both loop variables
\* strictly increase and each loop ends within max - start iterations, and
\* every read map.tiles[y * MAP_WIDTH + x] of the draw loop has
\* 0 <= x < MAP_WIDTH, 0 <= y < MAP_HEIGHT and a flat index in
\* [0, MAP_WIDTH * MAP_HEIGHT).
C11_ReadsInGrid ==
    pc = "present" =>
        /\ lod >= 1
        /\ LET xs   == DrawnXs
               ys   == DrawnYs
               size == MAP_WIDTH * MAP_HEIGHT
           IN  /\ Cardinality(xs) <= Max(0, max_x - start_x)
               /\ Cardinality(ys) <= Max(0, max_y - start_y)
               /\ (xs # {} /\ ys # {}) =>
                     /\ \A x \in xs : 0 <= x /\ x < MAP_WIDTH
                     /\ \A y \in ys : 0 <= y /\ y < MAP_HEIGHT
                     /\ \A y \in ys : \A x \in xs :
                           LET i == FlatIndex(x, y)
                           IN  0 <= i /\ i < size

\* A frame that looks past both ends of the grid's columns and past its
\* last row: the clamps acted, the stride is above 1, and the loop read the
\* grid's first and last footprints.
C11_ReadsAtGridEdges ==
    /\ pc = "present"
    /\ lod > 1
    /\ RawMin(offset_x, TILE_WIDTH) < 0
    /\ RawMax(screen_w, zoom, offset_x, TILE_WIDTH) > MAP_WIDTH
    /\ RawMax(screen_h, zoom, offset_y, TILE_HEIGHT) > MAP_HEIGHT
    /\ 0 \in DrawnXs
    /\ (MAP_WIDTH - 1) - ((MAP_WIDTH - 1) % lod) \in DrawnXs
    /\ (MAP_HEIGHT - 1) - ((MAP_HEIGHT - 1) % lod) \in DrawnYs
====
